---- MODULE Spec2Model ----
(***************************************************************************)
(* Model of src/analizador_lexico.py: the class Lexer, a hand-written      *)
(* scanner whose cursor (i, linea, columna) lives in the Lexer instance    *)
(* and whose public method tokens() is a generator.                        *)
(*                                                                         *)
(* A character is a one-character string; a text (the source, a lexeme) is *)
(* a sequence of characters.  A pull (next() on a generator returned by    *)
(* tokens()) runs from its resumption to the next yield, return or raise;  *)
(* the model walks it in steps of at most one _advance() each, with pc the *)
(* position inside the running generator frame.  Pulls never interleave:   *)
(* while pc # "idle" only the running frame can take a step.               *)
(***************************************************************************)
EXTENDS Integers, Sequences, FiniteSets, TLC

VARIABLES
    fuente,     \* self.fuente: the source text
    i,          \* self.i: 0-based offset of the current character
    linea,      \* self.linea
    columna,    \* self.columna
    gens,       \* the generators returned by tokens(), in creation order
    errores,    \* per generator: the LexerError it raised, or NoError
    actual,     \* the generator whose frame is running (0: none)
    pc,         \* position of the running frame
    start_i,    \* local start_i of the running scan function
    start_line, \* local start_line
    start_col,  \* local start_col
    ini,        \* history: offset where the construct being scanned began
    traza,      \* history: tokens yielded and characters skipped, in order
    ult         \* history: the last call made by the client and its outcome

vars == <<fuente, i, linea, columna, gens, errores, actual, pc,
          start_i, start_line, start_col, ini, traza, ult>>

cursor == <<i, linea, columna>>
locals == <<start_i, start_line, start_col, ini>>

---------------------------------------------------------------------------
(* Bounds of the exploration *)

MaxLen == 3
MaxLlamadas == 2

---------------------------------------------------------------------------
(* Characters *)

\* The character U+0000, which _peek also returns past the end of the source.
NUL == "NUL"

Letras == {"a", "b", "c", "d", "e", "f", "h", "i", "l", "n", "o", "r", "s",
           "t", "u", "v", "w", "x", "y", "_"}
Digitos == {"1", "2", "3", "5"}
Blancos == {" ", "\t", "\r", "\n"}

is_letter(c) == c \in Letras
is_digit(c) == c \in Digitos

\* The characters of the exhaustively enumerated sources.
Alfabeto == {" ", "\n", "a", "1", ".", "\"", "\\", "/", "*", "<", "=", "@", NUL}

Cadenas(L) == UNION {[1..k -> Alfabeto] : k \in 0..L}

\* The source int x; if (x >= 3) { return x; }
EndToEnd ==
    <<"i", "n", "t", " ", "x", ";", " ", "i", "f", " ", "(", "x", " ", ">",
      "=", " ", "3", ")", " ", "{", " ", "r", "e", "t", "u", "r", "n", " ",
      "x", ";", " ", "}">>

\* Further sources, scanned besides the enumerated ones.
Muestras ==
    { <<"&", "&">>, <<"|", "|">>, <<"!", "=">>, <<">", "=">>,
      <<"&">>, <<"|">>, <<"!">>, <<">">>, <<"&", "|">>, <<"!", "!", "=">>,
      <<"+">>, <<"-">>, <<";">>, <<",">>, <<"(">>, <<")">>, <<"{">>, <<"}">>,
      <<"\t">>, <<"\r">>,
      <<"/", "*", "*", "/">>, <<"/", "*", "a", "*", "/", "a">>,
      <<"/", "*", "\n", "*", "/", "<", "=">>,
      <<"/", "/", "a", "\n", "a">>,
      <<"a", "\n", "\"", "a", "\\">>,
      <<"1", ".", "1", "\n", "\"", "\\", "\"", "\"", "a">>,
      <<"i", "f">>, <<"i", "f", "f", "y">>, <<"i", "n", "t">>,
      <<"i", "f", " ", "i", "f", "f", "y", " ", "i", "n", "t">>,
      <<"w", "h", "i", "l", "e", " ", "r", "e", "t", "u", "r", "n", " ",
        "e", "l", "s", "e", " ", "f", "l", "o", "a", "t", " ",
        "v", "o", "i", "d", " ", "i", "f", "1", " ", "_", "x">>,
      <<"1", "2", ".", "5">>, <<"1", "2", ".">>, <<"3", ".", "1", "2", ".", "5">>,
      <<"\"", "a", "b", "\\", "\"", "c", "d", "\"">>,
      <<"\"", "a", "\\", "\n", "b", "\"", "a">>,
      <<"\"", "a", "\\", "\\", "\n", "b", "\"">>,
      <<"\"", "\\", "\n", "\"", "\"", "\n">>,
      <<"/", "*", "/", "*", "*", "/", "a">>,
      <<"/", "*", NUL, "*", "/", "a">>,
      <<"/", "*", " ", "/", "*", " ", "*", "/", " ", "a", " ", "*", "/">>,
      EndToEnd }

Fuentes == Cadenas(MaxLen) \cup Muestras

---------------------------------------------------------------------------
(* Token kinds *)

TOKEN ==
    [x \in {"identificador", "entero", "real", "cadena", "tipo", "opSuma",
            "opMul", "opRelac", "opOr", "opAnd", "opNot", "opIgualdad",
            ";", ",", "(", ")", "{", "}", "=", "if", "while", "return",
            "else", "$"} |->
        CASE x = "identificador" -> 0
          [] x = "entero" -> 1
          [] x = "real" -> 2
          [] x = "cadena" -> 3
          [] x = "tipo" -> 4
          [] x = "opSuma" -> 5
          [] x = "opMul" -> 6
          [] x = "opRelac" -> 7
          [] x = "opOr" -> 8
          [] x = "opAnd" -> 9
          [] x = "opNot" -> 10
          [] x = "opIgualdad" -> 11
          [] x = ";" -> 12
          [] x = "," -> 13
          [] x = "(" -> 14
          [] x = ")" -> 15
          [] x = "{" -> 16
          [] x = "}" -> 17
          [] x = "=" -> 18
          [] x = "if" -> 19
          [] x = "while" -> 20
          [] x = "return" -> 21
          [] x = "else" -> 22
          [] x = "$" -> 23]

RESERVED_SINGLE ==
    { <<"i", "f">>, <<"w", "h", "i", "l", "e">>,
      <<"r", "e", "t", "u", "r", "n">>, <<"e", "l", "s", "e">> }

ReservedName(lex) ==
    CASE lex = <<"i", "f">> -> "if"
      [] lex = <<"w", "h", "i", "l", "e">> -> "while"
      [] lex = <<"r", "e", "t", "u", "r", "n">> -> "return"
      [] lex = <<"e", "l", "s", "e">> -> "else"

RESERVED_TYPES ==
    { <<"i", "n", "t">>, <<"f", "l", "o", "a", "t">>, <<"v", "o", "i", "d">> }

---------------------------------------------------------------------------
(* Lexer.__init__ and the primitives *)

n == Len(fuente)

NoError == [msg |-> "", linea |-> 0, columna |-> 0, en |-> 0, ini |-> 0]

Init ==
    /\ fuente \in Fuentes
    /\ i = 0
    /\ linea = 1
    /\ columna = 1
    /\ gens = <<>>
    /\ errores = <<>>
    /\ actual = 0
    /\ pc = "idle"
    /\ start_i = 0
    /\ start_line = 0
    /\ start_col = 0
    /\ ini = 0
    /\ traza = <<>>
    /\ ult = [op |-> "init", gen |-> 0, res |-> ""]

\* self._peek(k)
Peek(k) == IF i + k < n THEN fuente[i + k + 1] ELSE NUL

\* _advance() without the reset of the column at a newline.
AdvanceNoReset ==
    /\ i' = i + 1
    /\ linea' = IF Peek(0) = "\n" THEN linea + 1 ELSE linea
    /\ columna' = columna + 1

\* _advance() without the count of the line at a newline.
AdvanceNoLine ==
    /\ i' = i + 1
    /\ linea' = linea
    /\ columna' = IF Peek(0) = "\n" THEN 1 ELSE columna + 1

\* self._advance(): one step of the cursor over the current character
Advance ==
    /\ i' = i + 1
    /\ linea' = IF Peek(0) = "\n" THEN linea + 1 ELSE linea
    /\ columna' = IF Peek(0) = "\n" THEN 1 ELSE columna + 1

\* self.fuente[a:b]
Slice(a, b) == SubSeq(fuente, a + 1, b)

Token(tipo, lexema, lin, col) ==
    [tipo |-> tipo, lexema |-> lexema, linea |-> lin, columna |-> col]

\* The frame is left: its locals are dead.
Leave ==
    /\ pc' = "idle"
    /\ actual' = 0
    /\ start_i' = 0
    /\ start_line' = 0
    /\ start_col' = 0
    /\ ini' = 0

\* yield tok: the generator is suspended, at the yield of `$` (line 181) or
\* at one of the yields inside the loop; desde is the offset the token began at.
Yield(tok, desde) ==
    /\ traza' = Append(traza, [gen |-> actual, clase |-> "token",
                               tipo |-> tok.tipo, lexema |-> tok.lexema,
                               linea |-> tok.linea, columna |-> tok.columna,
                               ini |-> desde])
    /\ gens' = [gens EXCEPT ![actual] =
                    IF tok.tipo = TOKEN["$"] THEN "eof" ELSE "activo"]
    /\ ult' = [op |-> "next", gen |-> actual, res |-> "token"]
    /\ UNCHANGED errores
    /\ Leave

\* A raise that leaves the generator able to go on.
RaiseAndGoOn(msg, lin, col, desde) ==
    /\ errores' = [errores EXCEPT ![actual] =
                      [msg |-> msg, linea |-> lin, columna |-> col,
                       en |-> i', ini |-> desde]]
    /\ gens' = [gens EXCEPT ![actual] = "activo"]
    /\ ult' = [op |-> "next", gen |-> actual, res |-> "error"]
    /\ UNCHANGED traza
    /\ pc' = "idle"
    /\ actual' = 0
    /\ start_i' = 0
    /\ start_line' = 0
    /\ start_col' = 0
    /\ ini' = 0

\* raise LexerError(msg, lin, col): the exception leaves the generator, which
\* is finished from then on; desde is the offset the failed construct began at.
Raise(msg, lin, col, desde) ==
    /\ errores' = [errores EXCEPT ![actual] =
                      [msg |-> msg, linea |-> lin, columna |-> col,
                       en |-> i', ini |-> desde]]
    /\ gens' = [gens EXCEPT ![actual] = "fin"]
    /\ ult' = [op |-> "next", gen |-> actual, res |-> "error"]
    /\ UNCHANGED traza
    /\ Leave

\* The character under the cursor is skipped (whitespace or comment text).
Skipped ==
    traza' = Append(traza, [gen |-> actual, clase |-> "salto", tipo |-> -1,
                            lexema |-> <<Peek(0)>>, linea |-> linea,
                            columna |-> columna, ini |-> i])

\* The frame goes on at position p.
Goto(p) ==
    /\ pc' = p
    /\ UNCHANGED <<gens, errores, actual, ult>>

---------------------------------------------------------------------------
(* The client: tokens() and next() *)

\* A tokens() that puts the cursor back to the start of the source.
TokensRewind ==
    /\ pc = "idle"
    /\ Len(gens) < MaxLlamadas
    /\ gens' = Append(gens, "activo")
    /\ errores' = Append(errores, NoError)
    /\ ult' = [op |-> "tokens", gen |-> Len(gens) + 1, res |-> "generator"]
    /\ i' = 0
    /\ linea' = 1
    /\ columna' = 1
    /\ UNCHANGED <<fuente, actual, pc, locals, traza>>

\* lex.tokens(): a new generator; no code of the body runs yet.
Tokens ==
    /\ pc = "idle"
    /\ Len(gens) < MaxLlamadas
    /\ gens' = Append(gens, "activo")
    /\ errores' = Append(errores, NoError)
    /\ ult' = [op |-> "tokens", gen |-> Len(gens) + 1, res |-> "generator"]
    /\ UNCHANGED <<fuente, cursor, actual, pc, locals, traza>>

\* The generators the client pulls from: the one it obtained last, as the
\* loop `for tok in lex.tokens()` of _demo does (the generator of an earlier
\* loop is out of reach once the loop is left).
Pullable == IF gens = <<>> THEN {} ELSE {Len(gens)}

\* next(g) on a generator not started or suspended inside the loop: the loop
\* body starts with self._skip_whitespace() (lines 177-178).
PullResume(g) ==
    /\ pc = "idle"
    /\ gens[g] = "activo"
    /\ actual' = g
    /\ pc' = "ws"
    /\ UNCHANGED <<fuente, cursor, gens, errores, locals, traza, ult>>

\* next(g) on a generator suspended at the yield of `$` (break, line 182) or
\* already finished: StopIteration.
PullStop(g) ==
    /\ pc = "idle"
    /\ gens[g] \in {"eof", "fin"}
    /\ gens' = [gens EXCEPT ![g] = "fin"]
    /\ ult' = [op |-> "next", gen |-> g, res |-> "StopIteration"]
    /\ UNCHANGED <<fuente, cursor, errores, actual, pc, locals, traza>>

---------------------------------------------------------------------------
(* Lexer._skip_whitespace *)

\* One iteration of the outer loop (lines 92-112).
SkipWhitespace ==
    /\ pc = "ws"
    /\ IF Peek(0) \in Blancos
         THEN /\ Advance
              /\ Skipped
              /\ Goto("ws")
              /\ UNCHANGED locals
         ELSE IF Peek(0) = "/" /\ Peek(1) = "/"
         THEN /\ Goto("lcom")
              /\ UNCHANGED <<cursor, locals, traza>>
         ELSE IF Peek(0) = "/" /\ Peek(1) = "*"
         THEN /\ Advance
              /\ Skipped
              /\ ini' = i
              /\ Goto("bcom1")
              /\ UNCHANGED <<start_i, start_line, start_col>>
         ELSE /\ Goto("scan")
              /\ UNCHANGED <<cursor, locals, traza>>
    /\ UNCHANGED fuente

\* A // loop that does not consume.
LineCommentStuck ==
    /\ pc = "lcom"
    /\ IF Peek(0) \notin {"\n", NUL}
         THEN /\ Goto("lcom")
              /\ UNCHANGED <<cursor, traza>>
         ELSE /\ Goto("ws")
              /\ UNCHANGED <<cursor, traza>>
    /\ UNCHANGED <<fuente, locals>>

\* The loop of a // comment (lines 99-101).
LineComment ==
    /\ pc = "lcom"
    /\ IF Peek(0) \notin {"\n", NUL}
         THEN /\ Advance
              /\ Skipped
              /\ Goto("lcom")
         ELSE /\ Goto("ws")
              /\ UNCHANGED <<cursor, traza>>
    /\ UNCHANGED <<fuente, locals>>

\* The second _advance() of line 103, over the `*` of the opener.
BlockOpen ==
    /\ pc = "bcom1"
    /\ Advance
    /\ Skipped
    /\ Goto("bcom")
    /\ UNCHANGED <<fuente, locals>>

\* A position one column past the cursor.
CommentErrorPastEnd == <<linea, columna + 1>>

\* The position of the error of line 106: the cursor.
CommentErrorPos == <<linea, columna>>

\* One iteration of the loop of a block comment (lines 104-110).
BlockComment ==
    /\ pc = "bcom"
    /\ IF Peek(0) = NUL
         THEN /\ UNCHANGED cursor
              /\ Raise("Comentario bloque sin cerrar", CommentErrorPos[1],
                       CommentErrorPos[2], ini)
         ELSE IF Peek(0) = "*" /\ Peek(1) = "/"
         THEN /\ Advance
              /\ Skipped
              /\ Goto("bcom2")
              /\ UNCHANGED locals
         ELSE /\ Advance
              /\ Skipped
              /\ Goto("bcom")
              /\ UNCHANGED locals
    /\ UNCHANGED fuente

\* The second _advance() of line 108, over the `/` of the closer.
BlockClose ==
    /\ pc = "bcom2"
    /\ Advance
    /\ Skipped
    /\ Goto("ws")
    /\ UNCHANGED <<fuente, locals>>

---------------------------------------------------------------------------
(* Lexer.tokens: the dispatch on the current character *)

\* The two-character operators without the relational ones.
Op2NoRelac(c, d) ==
    CASE c = "=" /\ d = "=" -> "opIgualdad"
      [] c = "!" /\ d = "=" -> "opIgualdad"
      [] c = "&" /\ d = "&" -> "opAnd"
      [] c = "|" /\ d = "|" -> "opOr"
      [] OTHER -> ""

\* The two-character operators (lines 203-230): the kind, or "" when the two
\* characters form none.
Op2(c, d) ==
    CASE c = "=" /\ d = "=" -> "opIgualdad"
      [] c = "!" /\ d = "=" -> "opIgualdad"
      [] c = "<" /\ d = "=" -> "opRelac"
      [] c = ">" /\ d = "=" -> "opRelac"
      [] c = "&" /\ d = "&" -> "opAnd"
      [] c = "|" /\ d = "|" -> "opOr"
      [] OTHER -> ""

\* The one-character tokens without the braces.
Op1NoBraces(c) ==
    CASE c \in {"+", "-"} -> "opSuma"
      [] c \in {"*", "/"} -> "opMul"
      [] c \in {"<", ">"} -> "opRelac"
      [] c = "!" -> "opNot"
      [] c \in {"=", ";", ",", "(", ")"} -> c
      [] OTHER -> ""

\* The one-character tokens (lines 234-256): the kind, or "" when the
\* character is none of them (line 258).
Op1(c) ==
    CASE c \in {"+", "-"} -> "opSuma"
      [] c \in {"*", "/"} -> "opMul"
      [] c \in {"<", ">"} -> "opRelac"
      [] c = "!" -> "opNot"
      [] c \in {"=", ";", ",", "(", ")", "{", "}"} -> c
      [] OTHER -> ""

\* Lines 179-258, from ch = self._peek() to the first _advance() of the
\* branch taken (the whole branch when it holds a single _advance()).
Dispatch ==
    /\ pc = "scan"
    /\ IF Peek(0) = NUL
         THEN /\ UNCHANGED cursor
              /\ Yield(Token(TOKEN["$"], <<"$">>, linea, columna), i)
         ELSE IF is_letter(Peek(0))
         THEN \* _scan_ident_or_reserved, lines 116-125
              /\ start_i' = i
              /\ start_line' = linea
              /\ start_col' = columna
              /\ ini' = i
              /\ Advance
              /\ Goto("ident")
              /\ UNCHANGED traza
         ELSE IF is_digit(Peek(0))
         THEN \* _scan_number, line 137
              /\ start_i' = i
              /\ start_line' = linea
              /\ start_col' = columna
              /\ ini' = i
              /\ Goto("num")
              /\ UNCHANGED <<cursor, traza>>
         ELSE IF Peek(0) = "\""
         THEN \* _scan_string, lines 153-155
              /\ start_line' = linea
              /\ start_col' = columna
              /\ Advance
              /\ start_i' = i'
              /\ ini' = i
              /\ Goto("str")
              /\ UNCHANGED traza
         ELSE IF Op2(Peek(0), Peek(1)) # ""
         THEN \* line 200 and the first _advance() of a two-character operator
              /\ start_line' = linea
              /\ start_col' = columna
              /\ ini' = i
              /\ Advance
              /\ Goto("op2")
              /\ UNCHANGED <<start_i, traza>>
         ELSE \* lines 200 and 233-258
              /\ Advance
              /\ IF Op1(Peek(0)) # ""
                   THEN Yield(Token(TOKEN[Op1(Peek(0))], <<Peek(0)>>,
                                    linea, columna), i)
                   ELSE Raise("Simbolo inesperado", linea, columna, i)
    /\ UNCHANGED fuente

---------------------------------------------------------------------------
(* Lexer._scan_ident_or_reserved, _scan_number, _scan_string *)

\* A classification that never looks the lexeme up in RESERVED_SINGLE.
IdentTokenNoReserved(lex, lin, col) ==
    IF lex \in RESERVED_TYPES
      THEN Token(TOKEN["tipo"], lex, lin, col)
      ELSE Token(TOKEN["identificador"], lex, lin, col)

\* The token of an identifier lexeme (lines 129-133).
IdentToken(lex, lin, col) ==
    IF lex \in RESERVED_SINGLE
      THEN Token(TOKEN[ReservedName(lex)], lex, lin, col)
      ELSE IF lex \in RESERVED_TYPES
      THEN Token(TOKEN["tipo"], lex, lin, col)
      ELSE Token(TOKEN["identificador"], lex, lin, col)

\* One iteration of the loop of line 126, then lines 128-133.
ScanIdent ==
    /\ pc = "ident"
    /\ IF is_letter(Peek(0)) \/ is_digit(Peek(0))
         THEN /\ Advance
              /\ Goto("ident")
              /\ UNCHANGED <<locals, traza>>
         ELSE /\ UNCHANGED cursor
              /\ Yield(IdentToken(Slice(start_i, i), start_line, start_col), ini)
    /\ UNCHANGED fuente

\* A guard that looks at the `.` only.
PointAheadNoDigit == Peek(0) = "."

\* The guard of line 140: a `.` with a digit after it.
PointAhead == Peek(0) = "." /\ is_digit(Peek(1))

\* One iteration of the loop of line 138, then lines 140-141 and 148-149.
ScanNumber ==
    /\ pc = "num"
    /\ IF is_digit(Peek(0))
         THEN /\ Advance
              /\ Goto("num")
              /\ UNCHANGED <<locals, traza>>
         ELSE IF PointAhead
         THEN /\ Advance
              /\ Goto("frac0")
              /\ UNCHANGED <<locals, traza>>
         ELSE /\ UNCHANGED cursor
              /\ Yield(Token(TOKEN["entero"], Slice(start_i, i),
                             start_line, start_col), ini)
    /\ UNCHANGED fuente

\* Lines 142-143, after the `.` was consumed.
ScanPoint ==
    /\ pc = "frac0"
    /\ UNCHANGED cursor
    /\ IF ~is_digit(Peek(0))
         THEN Raise("Se esperaba al menos un digito despues del punto",
                    linea, columna, ini)
         ELSE /\ Goto("frac")
              /\ UNCHANGED <<locals, traza>>
    /\ UNCHANGED fuente

\* A fraction scan that stops after one digit.
ScanFractionOneDigit ==
    /\ pc = "frac"
    /\ Advance
    /\ Yield(Token(TOKEN["real"], Slice(start_i, i + 1),
                   start_line, start_col), ini)
    /\ UNCHANGED fuente

\* One iteration of the loop of line 144, then lines 146-147.
ScanFraction ==
    /\ pc = "frac"
    /\ IF is_digit(Peek(0))
         THEN /\ Advance
              /\ Goto("frac")
              /\ UNCHANGED <<locals, traza>>
         ELSE /\ UNCHANGED cursor
              /\ Yield(Token(TOKEN["real"], Slice(start_i, i),
                             start_line, start_col), ini)
    /\ UNCHANGED fuente

\* Line 163, with the cursor on the closing quote: the text after the
\* opening quote and before the closing one.
StringLexemeQuoted == Slice(start_i, i + 1)

StringLexeme == Slice(start_i, i)

\* The position of the error of line 159: the opening quote.
UnterminatedHere == <<linea, columna>>

UnterminatedPos == <<start_line, start_col>>

\* The position of the error of line 161: the cursor, on the newline.
NewlineAtStart == <<start_line, start_col>>

NewlinePos == <<linea, columna>>

\* One iteration of the loop of _scan_string (lines 156-173), up to its
\* first _advance().
ScanString ==
    /\ pc = "str"
    /\ IF Peek(0) = NUL
         THEN /\ UNCHANGED cursor
              /\ Raise("Cadena sin cerrar", UnterminatedPos[1],
                       UnterminatedPos[2], ini)
         ELSE IF Peek(0) = "\n"
         THEN /\ UNCHANGED cursor
              /\ Raise("Salto de linea dentro de cadena", NewlinePos[1],
                       NewlinePos[2], ini)
         ELSE IF Peek(0) = "\""
         THEN /\ Advance
              /\ Yield(Token(TOKEN["cadena"], StringLexeme,
                             start_line, start_col), ini)
         ELSE IF Peek(0) = "\\"
         THEN /\ Advance
              /\ Goto("esc")
              /\ UNCHANGED <<locals, traza>>
         ELSE /\ Advance
              /\ Goto("str")
              /\ UNCHANGED <<locals, traza>>
    /\ UNCHANGED fuente

\* An escape that leaves the character after the backslash to the loop.
ScanEscapeNoSkip ==
    /\ pc = "esc"
    /\ Goto("str")
    /\ UNCHANGED <<fuente, cursor, locals, traza>>

\* An escape that consumes whatever _peek() returns.
ScanEscapeUnguarded ==
    /\ pc = "esc"
    /\ Advance
    /\ Goto("str")
    /\ UNCHANGED <<fuente, locals, traza>>

\* Lines 170-172: the character after a backslash, when there is one.
ScanEscape ==
    /\ pc = "esc"
    /\ IF Peek(0) # NUL
         THEN Advance
         ELSE UNCHANGED cursor
    /\ Goto("str")
    /\ UNCHANGED <<fuente, locals, traza>>

\* The second _advance() of a two-character operator and its yield
\* (lines 204-205, 208-209, 214-215, 218-219, 224-225, 228-229).
ScanOp2 ==
    /\ pc = "op2"
    /\ Advance
    /\ Yield(Token(TOKEN[Op2(fuente[i], Peek(0))], <<fuente[i], Peek(0)>>,
                   start_line, start_col), ini)
    /\ UNCHANGED fuente

---------------------------------------------------------------------------

Step ==
    \/ SkipWhitespace
    \/ LineComment
    \/ BlockOpen
    \/ BlockComment
    \/ BlockClose
    \/ Dispatch
    \/ ScanIdent
    \/ ScanNumber
    \/ ScanPoint
    \/ ScanFraction
    \/ ScanString
    \/ ScanEscape
    \/ ScanOp2

Next ==
    \/ Tokens
    \/ \E g \in Pullable : PullResume(g)
    \/ \E g \in Pullable : PullStop(g)
    \/ SkipWhitespace
    \/ LineComment
    \/ BlockOpen
    \/ BlockComment
    \/ BlockClose
    \/ Dispatch
    \/ ScanIdent
    \/ ScanNumber
    \/ ScanPoint
    \/ ScanFraction
    \/ ScanString
    \/ ScanEscape
    \/ ScanOp2

Spec == Init /\ [][Next]_vars

---------------------------------------------------------------------------
(* What the properties speak of *)

\* Line and column (1-based) of the character at 0-based offset k of the
\* source, counted on the source text itself.
NewlinesBefore(k) == {j \in 1..k : fuente[j] = "\n"}

LineaDe(k) == 1 + Cardinality(NewlinesBefore(k))

ColumnaDe(k) ==
    LET nl == NewlinesBefore(k)
        last == IF nl = {} THEN 0 ELSE CHOOSE j \in nl : \A m \in nl : m <= j
    IN  k - last + 1

Generadores == 1..Len(gens)

IsToken(e) == e.clase = "token"
IsEof(e) == e.clase = "token" /\ e.tipo = TOKEN["$"]

\* The tokens generator g has yielded so far, in order.
TokensOf(tr, g) == SelectSeq(tr, LAMBDA e : IsToken(e) /\ e.gen = g)

\* A generator that came to its end without raising.
Completed(g) == gens[g] \in {"eof", "fin"} /\ errores[g] = NoError

NingunError == \A g \in Generadores : errores[g] = NoError

---------------------------------------------------------------------------
(* C1 *)

\* C1: the tokens of one call of tokens() whose scan raised nothing hold
\* exactly one `$` token, it is the last one, and a `$` token is yielded only
\* with the cursor at the end of the source (position = length of the source).
C1_EofOnlyAtEnd ==
    \A g \in Generadores :
        LET ts == TokensOf(traza, g) IN
        /\ \A k \in 1..Len(ts) :
               IsEof(ts[k]) => k = Len(ts) /\ ts[k].ini = n
        /\ Completed(g) => Len(ts) >= 1 /\ IsEof(ts[Len(ts)])

\* The part of C1 the scanner keeps: one `$`, the last token, yielded where
\* _peek() returns the sentinel.
C1_EofAtSentinel ==
    \A g \in Generadores :
        LET ts == TokensOf(traza, g) IN
        /\ \A k \in 1..Len(ts) :
               IsEof(ts[k]) =>
                   /\ k = Len(ts)
                   /\ ts[k].ini = n \/ fuente[ts[k].ini + 1] = NUL
        /\ Completed(g) => Len(ts) >= 1 /\ IsEof(ts[Len(ts)])

---------------------------------------------------------------------------
(* C2 *)

\* The lexeme of a token or the skipped text; `$` stands for no source text.
LexemeText(e) == IF IsEof(e) THEN <<>> ELSE e.lexema

\* The source text an entry stands for: as LexemeText, and a cadena token
\* stands for its lexeme between its two double quotes.
SourceText(e) ==
    IF IsEof(e) THEN <<>>
    ELSE IF IsToken(e) /\ e.tipo = TOKEN["cadena"]
    THEN <<"\"">> \o e.lexema \o <<"\"">>
    ELSE e.lexema

RECURSIVE Concat(_, _)
\* The texts of the entries of tr, one after the other: their source texts
\* when quoted, their lexemes otherwise.
Concat(tr, quoted) ==
    IF tr = <<>> THEN <<>>
    ELSE Concat(SubSeq(tr, 1, Len(tr) - 1), quoted)
             \o (IF quoted THEN SourceText(tr[Len(tr)])
                           ELSE LexemeText(tr[Len(tr)]))

\* After a pull of generator g raised: the offset up to which tokens and
\* skipped text account for the source (the start of the failed token, or
\* the cursor inside an unterminated block comment).
FailurePoint(g) ==
    IF errores[g].msg = "Comentario bloque sin cerrar"
      THEN errores[g].en
      ELSE errores[g].ini

\* C2 as stated: while nothing was raised, after every pull that yielded a
\* token the lexemes of the tokens and the skipped text, concatenated in
\* order, are the source up to the cursor.
C2_LexemesReconstruct ==
    (pc = "idle" /\ NingunError /\ ult.res = "token")
        => Concat(traza, FALSE) = SubSeq(fuente, 1, i)

\* C2 amended: the same with the source text of each token, which for a
\* cadena token is its lexeme and its two quotes; and when a pull raises (the
\* first error of the Lexer), the concatenation is the source up to the point
\* of failure.  In between it is always a prefix of the consumed source.
C2_SourceTextReconstructs ==
    /\ (pc = "idle" /\ NingunError)
           => Concat(traza, TRUE) = SubSeq(fuente, 1, i)
    /\ NingunError
           => /\ Len(Concat(traza, TRUE)) <= i
              /\ Concat(traza, TRUE)
                     = SubSeq(fuente, 1, Len(Concat(traza, TRUE)))
    /\ (ult.res = "error" /\ \A h \in Generadores \ {ult.gen} : errores[h] = NoError)
           => Concat(traza, TRUE) = SubSeq(fuente, 1, FailurePoint(ult.gen))

\* A string token, skipped text and a further token were produced.
C2_Witness ==
    /\ pc = "idle" /\ NingunError
    /\ \E k \in 1..Len(traza) : IsToken(traza[k]) /\ traza[k].tipo = TOKEN["cadena"]
    /\ \E k \in 1..Len(traza) : ~IsToken(traza[k])
    /\ Len(traza) >= 3
    /\ i = n

---------------------------------------------------------------------------
(* C3 *)

\* The first character of a token: where its lexeme lies in the source (for
\* a cadena token the opening quote; `$` lies at the cursor it was yielded at).
StartsAt(e) ==
    IF IsEof(e) THEN e.ini <= n
    ELSE IF e.tipo = TOKEN["cadena"]
    THEN /\ fuente[e.ini + 1] = "\""
         /\ SubSeq(fuente, e.ini + 2, e.ini + 1 + Len(e.lexema)) = e.lexema
    ELSE /\ Len(e.lexema) >= 1
         /\ SubSeq(fuente, e.ini + 1, e.ini + Len(e.lexema)) = e.lexema

\* C3: every token yielded, `$` included, records the line and the column of
\* its first character: line = 1 + the number of newlines before it, column
\* = 1 + the number of characters since the last newline before it (or since
\* the start of the source).
C3_TokenPosition ==
    \A k \in 1..Len(traza) :
        IsToken(traza[k]) =>
            /\ StartsAt(traza[k])
            /\ traza[k].linea = LineaDe(traza[k].ini)
            /\ traza[k].columna = ColumnaDe(traza[k].ini)

\* A token that starts right after a newline, and one further on in a line.
C3_Witness ==
    /\ \E k \in 1..Len(traza) :
           /\ IsToken(traza[k]) /\ ~IsEof(traza[k])
           /\ traza[k].linea = 2 /\ traza[k].columna = 1
           /\ fuente[traza[k].ini] = "\n"
    /\ \E k \in 1..Len(traza) :
           /\ IsToken(traza[k]) /\ traza[k].columna > 1

---------------------------------------------------------------------------
(* C4 *)

\* C4: once a pull on a generator raised LexerError the generator is
\* finished: it keeps its error, and no later pull on it yields a token (so
\* none for the source after the point of failure).
C4_ErrorIsTerminal ==
    [][\A g \in Generadores :
           errores[g] # NoError =>
               /\ gens[g] = "fin"
               /\ gens'[g] = "fin"
               /\ errores'[g] = errores[g]
               /\ TokensOf(traza', g) = TokensOf(traza, g)]_vars

\* A generator that raised before the end of the source was pulled again.
C4_Witness ==
    /\ ult.op = "next" /\ ult.res = "StopIteration"
    /\ errores[ult.gen] # NoError
    /\ errores[ult.gen].en < n
    /\ TokensOf(traza, ult.gen) # <<>>

---------------------------------------------------------------------------
(* C5 *)

TokenOf(e) ==
    [tipo |-> e.tipo, lexema |-> e.lexema, linea |-> e.linea,
     columna |-> e.columna]

TokenSeq(g) ==
    [k \in 1..Len(TokensOf(traza, g)) |-> TokenOf(TokensOf(traza, g)[k])]

IsPrefix(s, t) == Len(s) <= Len(t) /\ SubSeq(t, 1, Len(s)) = s

\* C5: a generator obtained by calling tokens() again on the same Lexer
\* yields the token sequence from the beginning of the source: the tokens of
\* any two generators agree as far as both were pulled, and two generators
\* pulled to their end yielded the same sequence.
C5_RestartsFromStart ==
    \A g, h \in Generadores :
        /\ IsPrefix(TokenSeq(g), TokenSeq(h)) \/ IsPrefix(TokenSeq(h), TokenSeq(g))
        /\ (Completed(g) /\ Completed(h)) => TokenSeq(g) = TokenSeq(h)

\* What the code does instead: the cursor is shared, so the tokens of
\* successive generators lie one after the other in the source, and a
\* generator obtained after one that yielded `$` yields `$` only.
C5_ContinuesFromCursor ==
    /\ \A k, l \in 1..Len(traza) :
           (k < l /\ IsToken(traza[k]) /\ IsToken(traza[l])) =>
               /\ traza[k].ini <= traza[l].ini
               /\ ~IsEof(traza[k]) => traza[k].ini < traza[l].ini
    /\ \A g \in Generadores :
           (g > 1 /\ Completed(g - 1)) =>
               \A k \in 1..Len(TokensOf(traza, g)) : IsEof(TokensOf(traza, g)[k])

---------------------------------------------------------------------------
(* C6 *)

\* A variant of the scan: ten per character still to consume, plus what the
\* running frame can still do without consuming (a pull to start, the way
\* from the whitespace loop to the dispatch and into a scan function, the
\* yield that ends a scan function).
Rank ==
    CASE pc = "idle" ->
             IF gens # <<>> /\ gens[Len(gens)] = "activo" THEN 6 ELSE 0
      [] pc = "ws" -> IF Peek(0) = "/" /\ Peek(1) = "/" THEN 5 ELSE 3
      [] pc = "lcom" -> 4
      [] pc = "scan" -> 2
      [] pc = "num" -> IF i > start_i THEN 7 ELSE 1
      [] pc = "frac0" -> 9
      [] pc = "frac" -> IF is_digit(Peek(0)) THEN 8 ELSE 7
      [] pc = "ident" -> 7
      [] pc = "esc" -> 2
      [] OTHER -> 1

Medida == 10 * (n - i) + Rank

\* C6: the scan of a finite source terminates.  Every pull on a generator
\* that has not ended and every step of the scanner strictly decreases a
\* variant that is never negative, so after finitely many pulls and steps
\* the generator has yielded `$` or raised; a running frame always has a
\* step that changes the state; and an iteration that stays in the same loop
\* (whitespace, line comment, block comment, identifier, number, string)
\* consumes a character.
C6_Terminates ==
    /\ [](Medida >= 0)
    /\ [](pc # "idle" => ENABLED <<Step>>_vars)
    /\ [][(pc # "idle" \/ pc' # "idle") => Medida' < Medida]_vars
    /\ [][(pc # "idle" /\ pc' = pc) => i' = i + 1]_vars

\* A generator pulled to its `$` over a source of full length, through
\* skipped text and several tokens.
C6_Witness ==
    /\ pc = "idle"
    /\ n >= MaxLen
    /\ \E g \in Generadores : Completed(g) /\ Len(TokensOf(traza, g)) >= 3
    /\ \E k \in 1..Len(traza) : ~IsToken(traza[k])

---------------------------------------------------------------------------
(* C7 *)

PosDe(k) == <<LineaDe(k), ColumnaDe(k)>>

ErrorPos(e) == <<e.linea, e.columna>>

\* Where each error is claimed to lie, apart from the unterminated block
\* comment: the opening quote of an unterminated string, the offending
\* character for a malformed real, a newline inside a string and an
\* unexpected symbol.
OtherErrorsLocated(e) ==
    /\ e.msg = "Cadena sin cerrar" =>
           /\ fuente[e.ini + 1] = "\""
           /\ ErrorPos(e) = PosDe(e.ini)
    /\ e.msg = "Se esperaba al menos un digito despues del punto" =>
           ErrorPos(e) = PosDe(e.en)
    /\ e.msg = "Salto de linea dentro de cadena" =>
           /\ fuente[e.en + 1] = "\n"
           /\ ErrorPos(e) = PosDe(e.en)
    /\ e.msg = "Simbolo inesperado" =>
           /\ e.en = e.ini + 1
           /\ ErrorPos(e) = PosDe(e.ini)

\* C7 as stated: an unterminated block comment is reported at the start of
\* the comment, the other errors as above.
C7_ErrorsAtConstructStart ==
    \A g \in Generadores :
        errores[g] # NoError =>
            /\ errores[g].msg = "Comentario bloque sin cerrar" =>
                   /\ Slice(errores[g].ini, errores[g].ini + 2) = <<"/", "*">>
                   /\ ErrorPos(errores[g]) = PosDe(errores[g].ini)
            /\ OtherErrorsLocated(errores[g])

\* C7 amended: an unterminated block comment is reported at the cursor where
\* the scan stalled, after the comment text consumed, the other errors as
\* above.
C7_ErrorsLocated ==
    \A g \in Generadores :
        errores[g] # NoError =>
            /\ errores[g].msg = "Comentario bloque sin cerrar" =>
                   /\ Slice(errores[g].ini, errores[g].ini + 2) = <<"/", "*">>
                   /\ errores[g].en >= errores[g].ini + 2
                   /\ ErrorPos(errores[g]) = PosDe(errores[g].en)
            /\ OtherErrorsLocated(errores[g])

\* Each error that occurs was raised, the unterminated comment on a later
\* line than its start.
C7_Witness ==
    \E g \in Generadores :
        /\ errores[g].msg = "Comentario bloque sin cerrar"
        /\ errores[g].linea > LineaDe(errores[g].ini)

C7_WitnessString ==
    \E g \in Generadores :
        /\ errores[g].msg = "Salto de linea dentro de cadena"
        /\ errores[g].columna > 2

---------------------------------------------------------------------------
(* C8 *)

\* C8: with the cursor at the end of the source inside a string literal,
\* the scan raises the unterminated-string error with the line and column of
\* the opening quote, and yields nothing.
C8_UnterminatedString ==
    [][(pc = "str" /\ i = n) =>
           /\ fuente[ini + 1] = "\""
           /\ errores'[actual] =
                  [msg |-> "Cadena sin cerrar", linea |-> LineaDe(ini),
                   columna |-> ColumnaDe(ini), en |-> n, ini |-> ini]
           /\ gens'[actual] = "fin"
           /\ traza' = traza]_vars

\* The error was raised for a string that ends in a backslash, the cursor
\* far from the opening quote.
C8_Witness ==
    \E g \in Generadores :
        /\ errores[g].msg = "Cadena sin cerrar"
        /\ errores[g].en = n
        /\ fuente[n] = "\\"
        /\ ErrorPos(errores[g]) # <<linea, columna>>
        /\ errores[g].ini > 0

---------------------------------------------------------------------------
(* C9 *)

OperatorChars ==
    {"+", "-", "*", "/", "<", ">", "!", "=", ";", ",", "(", ")", "{", "}"}

\* c, followed by d, is a character no rule of the scanner matches.
Unmatched(c, d) ==
    /\ c \notin Letras \cup Digitos \cup {"\""} \cup OperatorChars
    /\ ~(c \in {"&", "|"} /\ d = c)

UnexpectedAt(k) ==
    [msg |-> "Simbolo inesperado", linea |-> LineaDe(k),
     columna |-> ColumnaDe(k), en |-> k + 1, ini |-> k]

\* C9: a character of the source that, after the skipping of whitespace and
\* comments, is no letter, underscore, digit, double quote or operator or
\* punctuation character (and no doubled & or |) raises the unexpected-symbol
\* error at its own line and column.
C9_UnmatchedRaises ==
    [][(pc = "scan" /\ i < n /\ Unmatched(Peek(0), Peek(1))) =>
           /\ errores'[actual] = UnexpectedAt(i)
           /\ gens'[actual] = "fin"
           /\ traza' = traza]_vars

\* The same for every character but U+0000, which the scanner takes for the
\* end of the source.
C9_UnmatchedButNulRaises ==
    [][(pc = "scan" /\ i < n /\ Peek(0) # NUL /\ Unmatched(Peek(0), Peek(1))) =>
           /\ errores'[actual] = UnexpectedAt(i)
           /\ gens'[actual] = "fin"
           /\ traza' = traza]_vars

---------------------------------------------------------------------------
(* C10 *)

\* The kind of a two-character operator lexeme, -1 for any other pair.
PairKind(c, d) ==
    CASE <<c, d>> \in {<<"=", "=">>, <<"!", "=">>} -> TOKEN["opIgualdad"]
      [] <<c, d>> \in {<<"<", "=">>, <<">", "=">>} -> TOKEN["opRelac"]
      [] <<c, d>> = <<"&", "&">> -> TOKEN["opAnd"]
      [] <<c, d>> = <<"|", "|">> -> TOKEN["opOr"]
      [] OTHER -> -1

\* The character after offset k, NUL when there is none.
CharAfter(k) == IF k + 2 <= n THEN fuente[k + 2] ELSE NUL

\* C10: a token that starts where the current and the next character form
\* ==, !=, <=, >=, && or || is that two-character operator, with its kind;
\* a token that starts at <, >, ! or = where they form none is that single
\* character (opRelac for < and >).
C10_GreedyOperators ==
    \A k \in 1..Len(traza) :
        LET e == traza[k]
            c == fuente[e.ini + 1]
            d == CharAfter(e.ini)
        IN  (IsToken(e) /\ ~IsEof(e)) =>
                /\ PairKind(c, d) # -1 =>
                       /\ e.lexema = <<c, d>>
                       /\ e.tipo = PairKind(c, d)
                /\ (PairKind(c, d) = -1 /\ c \in {"<", ">", "!", "="}) =>
                       /\ e.lexema = <<c>>
                       /\ c \in {"<", ">"} => e.tipo = TOKEN["opRelac"]
                       /\ c = "!" => e.tipo = TOKEN["opNot"]
                       /\ c = "=" => e.tipo = TOKEN["="]

\* `<=` was yielded as one token, and a `<` before another character as a
\* token of its own.
C10_Witness ==
    /\ \E k \in 1..Len(traza) :
           /\ IsToken(traza[k])
           /\ traza[k].lexema = <<"<", "=">>
           /\ traza[k].tipo = TOKEN["opRelac"]
    /\ \E k \in 1..Len(traza) :
           /\ IsToken(traza[k])
           /\ traza[k].lexema = <<"<">>
           /\ traza[k].ini + 1 < n

---------------------------------------------------------------------------
(* C11 *)

RECURSIVE RunEnd(_, _)
\* The offset after the maximal run of characters of the set S that starts
\* at offset k of the source.
RunEnd(k, S) == IF k < n /\ fuente[k + 1] \in S THEN RunEnd(k + 1, S) ELSE k

\* The kind of a word: its own kind for if, while, return, else; tipo for
\* int, float, void; identificador for any other.
WordKind(w) ==
    CASE w = <<"i", "f">> -> TOKEN["if"]
      [] w = <<"w", "h", "i", "l", "e">> -> TOKEN["while"]
      [] w = <<"r", "e", "t", "u", "r", "n">> -> TOKEN["return"]
      [] w = <<"e", "l", "s", "e">> -> TOKEN["else"]
      [] w = <<"i", "n", "t">> -> TOKEN["tipo"]
      [] w = <<"f", "l", "o", "a", "t">> -> TOKEN["tipo"]
      [] w = <<"v", "o", "i", "d">> -> TOKEN["tipo"]
      [] OTHER -> TOKEN["identificador"]

\* C11: a token that starts at a letter or underscore has as lexeme the
\* maximal run of letters and digits from there, and the kind of that whole
\* lexeme: if, while, return, else their own kind, int, float, void tipo,
\* anything else (a longer run that starts with a keyword too) identificador.
C11_WordTokens ==
    \A k \in 1..Len(traza) :
        LET e == traza[k] IN
        (IsToken(e) /\ ~IsEof(e) /\ fuente[e.ini + 1] \in Letras) =>
            /\ e.lexema = Slice(e.ini, RunEnd(e.ini, Letras \cup Digitos))
            /\ e.tipo = WordKind(e.lexema)

\* if, iffy and int were yielded with their kinds.
C11_Witness ==
    /\ \E k \in 1..Len(traza) :
           traza[k].lexema = <<"i", "f">> /\ traza[k].tipo = 19
    /\ \E k \in 1..Len(traza) :
           traza[k].lexema = <<"i", "f", "f", "y">> /\ traza[k].tipo = 0
    /\ \E k \in 1..Len(traza) :
           traza[k].lexema = <<"i", "n", "t">> /\ traza[k].tipo = 4

---------------------------------------------------------------------------
(* C12 *)

\* The offset after the number that starts at offset k: the maximal digit
\* run, and a point and the maximal digit run after it when a digit follows
\* the point.
NumberEnd(k) ==
    LET d == RunEnd(k, Digitos) IN
    IF d + 1 < n /\ fuente[d + 1] = "." /\ fuente[d + 2] \in Digitos
      THEN RunEnd(d + 1, Digitos)
      ELSE d

\* The tokens that start at a digit are the numbers of the source.
NumberTokens ==
    \A k \in 1..Len(traza) :
        LET e == traza[k] IN
        (IsToken(e) /\ ~IsEof(e) /\ fuente[e.ini + 1] \in Digitos) =>
            /\ e.lexema = Slice(e.ini, NumberEnd(e.ini))
            /\ e.tipo = IF NumberEnd(e.ini) = RunEnd(e.ini, Digitos)
                          THEN TOKEN["entero"] ELSE TOKEN["real"]
            /\ (k = Len(traza) /\ pc = "idle" /\ ult.res = "token") =>
                   i = NumberEnd(e.ini)

\* No error belongs to a construct that starts at a digit.
NumbersNeverFail ==
    \A g \in Generadores :
        (errores[g] # NoError /\ errores[g].ini < n) =>
            fuente[errores[g].ini + 1] \notin Digitos

\* C12: a token that starts at a digit has as lexeme the maximal digit run,
\* extended by a point and the maximal digit run after it exactly when a
\* digit follows the point, and is real in that case and entero otherwise;
\* the scan of a number never fails and leaves the cursor after the lexeme,
\* and a scan that starts at a point raises the unexpected-symbol error there.
C12_Numbers ==
    /\ [](NumberTokens /\ NumbersNeverFail)
    /\ [][(pc = "scan" /\ Peek(0) = ".") =>
            /\ gens'[actual] = "fin"
            /\ errores'[actual].msg = "Simbolo inesperado"
            /\ errores'[actual].linea = LineaDe(i)
            /\ errores'[actual].columna = ColumnaDe(i)]_vars

\* `12.` gave entero 12 and then the unexpected-symbol error at the point.
C12_Witness ==
    /\ fuente = <<"1", "2", ".">>
    /\ \E k \in 1..Len(traza) :
           /\ traza[k].lexema = <<"1", "2">>
           /\ traza[k].tipo = TOKEN["entero"]
           /\ errores[traza[k].gen] # NoError
           /\ errores[traza[k].gen].msg = "Simbolo inesperado"
           /\ errores[traza[k].gen].ini = 2

---------------------------------------------------------------------------
(* C13 *)

RECURSIVE StringClose(_, _)
\* The offset of the quote that closes a string whose content starts at
\* offset k, or -1 when the end of the source or a newline comes first; the
\* character after a backslash is content and is looked at no further. With
\* nulEnds, a U+0000 character counts as the end of the source.
StringClose(k, nulEnds) ==
    IF k >= n THEN -1
    ELSE IF fuente[k + 1] = "\"" THEN k
    ELSE IF fuente[k + 1] = "\n" THEN -1
    ELSE IF fuente[k + 1] = NUL /\ nulEnds THEN -1
    ELSE IF fuente[k + 1] = "\\"
      THEN IF k + 1 < n /\ ~(fuente[k + 2] = NUL /\ nulEnds)
             THEN StringClose(k + 2, nulEnds)
             ELSE -1
      ELSE StringClose(k + 1, nulEnds)

\* The tokens that start at a quote are cadena tokens whose lexeme is the
\* text between the quotes, with the cursor left after the closing quote.
StringTokens(nulEnds) ==
    \A k \in 1..Len(traza) :
        LET e == traza[k]
            c == StringClose(e.ini + 1, nulEnds)
        IN  (IsToken(e) /\ ~IsEof(e) /\ fuente[e.ini + 1] = "\"") =>
                /\ c >= 0
                /\ e.tipo = TOKEN["cadena"]
                /\ e.lexema = Slice(e.ini + 1, c)
                /\ (k = Len(traza) /\ pc = "idle" /\ ult.res = "token") =>
                       i = c + 1

\* No error belongs to a string that is terminated.
TerminatedStringsYield(nulEnds) ==
    \A g \in Generadores :
        (errores[g] # NoError /\ errores[g].ini < n
           /\ fuente[errores[g].ini + 1] = "\"") =>
            StringClose(errores[g].ini + 1, nulEnds) = -1

\* C13: the scan of a terminated string literal yields one cadena token
\* whose lexeme is the source text between the quotes, a backslash and the
\* character after it kept and never closing the string, and leaves the
\* cursor after the closing quote.
C13_TerminatedStrings ==
    StringTokens(FALSE) /\ TerminatedStringsYield(FALSE)

\* The same for the strings that hold no U+0000 character before their
\* closing quote.
C13_TerminatedButNulStrings ==
    StringTokens(TRUE) /\ TerminatedStringsYield(TRUE)

\* The string "ab\"cd" was yielded as one cadena token.
C13_EscapedQuoteKept ==
    \E k \in 1..Len(traza) :
        /\ traza[k].tipo = TOKEN["cadena"]
        /\ traza[k].lexema = <<"a", "b", "\\", "\"", "c", "d">>

---------------------------------------------------------------------------
(* C14 *)

\* The kinds of the tokens generator g has yielded so far, in order.
KindSeq(g) == [k \in 1..Len(TokensOf(traza, g)) |-> TokensOf(traza, g)[k].tipo]

\* tipo, identificador, `;`, if, `(`, identificador, opRelac, entero, `)`,
\* `{`, return, identificador, `;`, `}`, `$`
EndToEndKinds ==
    <<TOKEN["tipo"], TOKEN["identificador"], TOKEN[";"], TOKEN["if"],
      TOKEN["("], TOKEN["identificador"], TOKEN["opRelac"], TOKEN["entero"],
      TOKEN[")"], TOKEN["{"], TOKEN["return"], TOKEN["identificador"],
      TOKEN[";"], TOKEN["}"], TOKEN["$"]>>

\* C14: on the source `int x; if (x >= 3) { return x; }` no scan raises, and
\* the generator that scans it from its first character yields the kinds
\* tipo, identificador, `;`, if, `(`, identificador, opRelac, entero, `)`,
\* `{`, return, identificador, `;`, `}`, `$`: a prefix of them as long as it
\* is pulled, all of them once it has come to its end.
C14_EndToEnd ==
    (fuente = EndToEnd) =>
        /\ NingunError
        /\ Len(gens) >= 1 =>
             /\ IsPrefix(KindSeq(1), EndToEndKinds)
             /\ gens[1] \in {"eof", "fin"} => KindSeq(1) = EndToEndKinds

\* The first generator has scanned the whole source and was pulled once more.
C14_Witness ==
    /\ fuente = EndToEnd
    /\ Len(gens) >= 1
    /\ gens[1] = "fin"
    /\ Len(KindSeq(1)) = 15
    /\ i = n

---------------------------------------------------------------------------
(* C15 *)

\* C15: with the cursor at the end of the source inside a block comment, the
\* next step raises 'Comentario bloque sin cerrar' with the line and column
\* of the cursor, the position of the end of the source, which is not the
\* position of the opening `/*`.
C15_CommentErrorAtCursor ==
    [][(pc = "bcom" /\ i = n) =>
          /\ gens'[actual] = "fin"
          /\ errores'[actual].msg = "Comentario bloque sin cerrar"
          /\ errores'[actual].linea = LineaDe(n)
          /\ errores'[actual].columna = ColumnaDe(n)
          /\ errores'[actual].en = n
          /\ PosDe(n) # PosDe(ini)]_vars

\* A comment left open on the line of its opener was reported at the end of
\* the source, at least three columns after the opener.
C15_Witness ==
    \E g \in Generadores :
        /\ errores[g] # NoError
        /\ errores[g].msg = "Comentario bloque sin cerrar"
        /\ errores[g].en = n
        /\ errores[g].linea = LineaDe(errores[g].ini)
        /\ errores[g].columna >= ColumnaDe(errores[g].ini) + 3

---------------------------------------------------------------------------
(* C16 *)

\* C16: no generator ever raises 'Se esperaba al menos un digito despues del
\* punto': whenever _scan_number has consumed a `.` (line 141), the character
\* under the cursor is a digit, so the check of line 142 passes.
C16_MalformedRealUnreachable ==
    /\ \A g \in Generadores :
           errores[g].msg # "Se esperaba al menos un digito despues del punto"
    /\ pc = "frac0" => (i < n /\ is_digit(fuente[i + 1]))

\* _scan_number has just consumed the `.` of a number.
C16_Witness ==
    /\ pc = "frac0"
    /\ fuente[i] = "."
    /\ is_digit(fuente[start_i + 1])

---------------------------------------------------------------------------
(* C17 *)

\* In the lexeme of a cadena token a newline comes only after a backslash.
NewlinesEscaped ==
    \A k \in 1..Len(traza) :
        (IsToken(traza[k]) /\ traza[k].tipo = TOKEN["cadena"]) =>
            \A j \in 1..Len(traza[k].lexema) :
                traza[k].lexema[j] = "\n" =>
                    (j > 1 /\ traza[k].lexema[j - 1] = "\\")

\* C17: inside a string, a newline under the cursor at the head of the loop
\* (not the character a backslash escape consumes) raises 'Salto de linea
\* dentro de cadena' with the line and column of the newline, which are not
\* those of the opening quote; a newline that follows a backslash is
\* consumed by the escape, raises nothing and is part of the lexeme.
C17_NewlineInString ==
    /\ [][(pc = "str" /\ Peek(0) = "\n") =>
            /\ gens'[actual] = "fin"
            /\ errores'[actual].msg = "Salto de linea dentro de cadena"
            /\ errores'[actual].linea = LineaDe(i)
            /\ errores'[actual].columna = ColumnaDe(i)
            /\ PosDe(i) # PosDe(ini)]_vars
    /\ [][(pc = "esc" /\ Peek(0) = "\n") =>
            /\ i' = i + 1
            /\ pc' = "str"
            /\ errores' = errores
            /\ gens' = gens]_vars
    /\ []NewlinesEscaped

\* A string with an escaped newline was yielded with the newline in its
\* lexeme, and the raw newline of the next string was reported on line 2.
C17_Witness ==
    /\ \E k \in 1..Len(traza) :
           /\ traza[k].tipo = TOKEN["cadena"]
           /\ traza[k].lexema = <<"\\", "\n">>
    /\ \E g \in Generadores :
           /\ errores[g].msg = "Salto de linea dentro de cadena"
           /\ errores[g].linea = 2
           /\ errores[g].columna = 3

---------------------------------------------------------------------------
(* C18 *)

RECURSIVE CommentClose(_, _)
\* The offset of the first `*/` at or after offset k, or -1 when there is
\* none. With nulEnds, a U+0000 character counts as the end of the source.
CommentClose(k, nulEnds) ==
    IF k >= n THEN -1
    ELSE IF fuente[k + 1] = NUL /\ nulEnds THEN -1
    ELSE IF k + 1 < n /\ fuente[k + 1] = "*" /\ fuente[k + 2] = "/" THEN k
    ELSE CommentClose(k + 1, nulEnds)

\* Inside a block comment opened at offset ini the cursor is past the two
\* characters of the opener and before or on the first `*/` after them; the
\* closer being consumed is that first `*/`; and the comment is reported
\* as unterminated only when no `*/` comes after the opener.
FirstCloserCloses(nulEnds) ==
    /\ pc \in {"bcom", "bcom2"} =>
           /\ fuente[ini + 1] = "/" /\ fuente[ini + 2] = "*"
           /\ i >= ini + 2
    /\ pc = "bcom" =>
           \/ CommentClose(ini + 2, nulEnds) = -1
           \/ CommentClose(ini + 2, nulEnds) >= i
    /\ pc = "bcom2" => CommentClose(ini + 2, nulEnds) = i - 1
    /\ \A g \in Generadores :
           errores[g].msg = "Comentario bloque sin cerrar" =>
               CommentClose(errores[g].ini + 2, nulEnds) = -1

\* C18: a block comment is closed by the first `*/` after the two characters
\* of its opener, whatever lies between them (an inner `/*` too), the `*`
\* of the opener never being the `*` of the closer.
C18_FirstCloserCloses == FirstCloserCloses(FALSE)

\* The same for the comments that hold no U+0000 character before their
\* first `*/`, and the scan goes on with the character after that `*/`.
C18_FirstCloserButNulCloses ==
    /\ [] FirstCloserCloses(TRUE)
    /\ [][pc = "bcom2" =>
            /\ pc' = "ws"
            /\ i' = CommentClose(ini + 2, TRUE) + 2
            /\ errores' = errores]_vars

\* After `/*/**/` the scan went on and yielded the `a` that follows.
C18_InnerOpenerIgnored ==
    /\ fuente = <<"/", "*", "/", "*", "*", "/", "a">>
    /\ \E k \in 1..Len(traza) :
           IsToken(traza[k]) /\ traza[k].lexema = <<"a">> /\ traza[k].ini = 6

---------------------------------------------------------------------------
(* C19 *)

\* C19: a step that moves the cursor moves the position by exactly one, and
\* over a newline the line grows by one and the column becomes 1, over any
\* other character the column grows by one and the line stays; so position
\* and line never decrease; and a step that does not advance (it only
\* peeks) changes none of position, line and column.
C19_AdvanceEffect ==
    [][/\ i' # i =>
            /\ i' = i + 1
            /\ IF i < n /\ fuente[i + 1] = "\n"
                 THEN linea' = linea + 1 /\ columna' = 1
                 ELSE linea' = linea /\ columna' = columna + 1
       /\ i' = i => (linea' = linea /\ columna' = columna)
       /\ i' >= i
       /\ linea' >= linea]_vars

\* The cursor has passed two newlines and one more character.
C19_Witness ==
    /\ linea = 3
    /\ columna = 2
    /\ i >= 3

---------------------------------------------------------------------------
(* C20 *)

\* C20: the position of the cursor is always within 0..len(source); a step
\* advances only with the cursor before the end of the source, so that line
\* and column change only by consuming a character of the source, never
\* the end-of-input sentinel.
C20_CursorInBounds ==
    /\ [](0 <= i /\ i <= n)
    /\ [][(i' # i \/ linea' # linea \/ columna' # columna) => i < n]_vars

\* The escape step has run with the cursor at the end of the source, after
\* a trailing backslash, and has consumed nothing.
C20_Witness ==
    /\ pc = "str"
    /\ i = n
    /\ fuente[n] = "\\"
    /\ n - start_i = 1
    /\ columna = ColumnaDe(n)

====
